---------------------------- MODULE Spec2Model ----------------------------
(***************************************************************************)
(* Model of movie-recommendation.py: the item-to-item similarity pipeline  *)
(* (quality filter, co-rating self join, cosine aggregation) and the       *)
(* interactive "similar movies" query that follows it.                     *)
(*                                                                         *)
(* DataFrames are bags of rows (a row may occur several times, their order *)
(* is not observable).  The sums of the aggregator are sums of integer     *)
(* columns and are exact in Spark (LongType), so they are integers here.   *)
(* The two floating point results, avgRating and score, are kept as exact  *)
(* quotients: avgRating as sum/count, score as numerator over              *)
(* sqrt(xx)*sqrt(yy).  Comparisons on them are done on cross products.     *)
(* Null columns are not modelled: every field of every row is present.     *)
(***************************************************************************)
EXTENDS Integers, FiniteSets, Sequences, Bags, TLC

VARIABLES
    movieNames,             \* DataFrame u.item  : set of (movieID, movieTitle)
    movies,                 \* DataFrame u.data  : bag of (userID, movieID, rating)
    goodMovies,             \* filterGoodMovies(movies)
    ratings,                \* movies joined with goodMovies
    moviePairs,             \* self join of ratings
    moviePairSimilarities,  \* computeCosineSimilarity(spark, moviePairs)
    movieID,                \* the variable movieID: unset, then str, then int
    filteredResults,        \* rows of moviePairSimilarities kept by the filter
    results,                \* sort(score desc).take(10)
    output,                 \* what was printed, line by line
    lookups,                \* the IDs getMovieName was called with, in order
    outcome,                \* how the run ended
    pc                      \* the next statement of the script

vars == <<movieNames, movies, goodMovies, ratings, moviePairs,
          moviePairSimilarities, movieID, filteredResults, results, output,
          lookups, outcome, pc>>

-----------------------------------------------------------------------------
(* Bounds of the model *)

\* Small tables hold at most MaxRows rating rows.
MaxRows == 3
\* Crowd tables: an item is rated by coOccurrenceThreshold + d users, d in 0..CrowdSlack.
CrowdSlack == 2
\* Crowd tables hold the items 1..NumCrowdMovies.
NumCrowdMovies == 16

\* The IDs small tables are drawn from.
SmallUsers == {1, 2}
SmallMovies == {1, 2, 3}

-----------------------------------------------------------------------------
(* Arithmetic over finite sets and bags *)

RECURSIVE SumOver(_, _)
\* The sum of f[x] for x in the finite set S.
SumOver(S, f) ==
    IF S = {} THEN 0
    ELSE LET x == CHOOSE y \in S : TRUE
         IN f[x] + SumOver(S \ {x}, f)

\* The bag B restricted to the rows in D, with their copies.
BagRestrict(B, D) == [r \in D \cap DOMAIN B |-> B[r]]

-----------------------------------------------------------------------------
(* Schemas, constants *)

\* rating column of moviesSchema; the data set holds the stars 1..5.
Ratings == 1..5

\* A row of movies / ratings after the columns userID, movieID, rating are kept.
RatingRow(u, m, r) == [userID |-> u, movieID |-> m, rating |-> r]

\* A row of movieNames.
NameRow(m) == [movieID |-> m, movieTitle |-> <<"title", m>>]

\* threshold=3.0, the default of filterGoodMovies, as a quotient.
defaultThreshold == [num |-> 3, den |-> 1]

\* scoreThreshold = 0.97 as a quotient.
scoreThreshold == [num |-> 97, den |-> 100]

\* coOccurrenceThreshold = 50.0
coOccurrenceThreshold == 50

\* take(10)
takeCount == 10

\* The names bound by the import statements of the script.
importedNames == {"SparkSession", "func", "StructType", "StructField",
                  "StringType", "IntegerType", "LongType"}

-----------------------------------------------------------------------------
(* filterGoodMovies *)

\* avgRating of one movieID group: func.avg("rating") = sum / count, kept as
\* the quotient of the two (every copy of a row counts).
avgRating(mv, m) ==
    LET G == {r \in DOMAIN mv : r.movieID = m}
    IN [sum   |-> SumOver(G, [r \in G |-> mv[r] * r.rating]),
        count |-> SumOver(G, [r \in G |-> mv[r]])]

\* movies.groupBy("movieID").agg(avg("rating")): one row per movieID.
movieAverages(mv) ==
    {[movieID |-> m, avgRating |-> avgRating(mv, m)] :
        m \in {r.movieID : r \in DOMAIN mv}}

\* avgRating > threshold, the strict comparison.
AboveThreshold(avg, threshold) ==
    avg.sum * threshold.den > threshold.num * avg.count

\* func.col("avgRating") >= threshold, on the quotients.
AtLeastThreshold(avg, threshold) ==
    avg.sum * threshold.den >= threshold.num * avg.count

filterGoodMovies(mv, threshold) ==
    {g \in movieAverages(mv) : AtLeastThreshold(g.avgRating, threshold)}

-----------------------------------------------------------------------------
(* ratings = movies.join(goodMovies, "movieID").select(...) *)

\* The ratings of all movies, good or not.
AllRatings(mv, gm) == mv

\* Inner join on movieID: a rating row is kept once per goodMovies row that
\* carries its movieID (goodMovies has one row per movieID).
JoinGoodMovies(mv, gm) ==
    LET copies(r) == mv[r] * Cardinality({g \in gm : g.movieID = r.movieID})
        D == {r \in DOMAIN mv : copies(r) > 0}
    IN [r \in D |-> copies(r)]

-----------------------------------------------------------------------------
(* moviePairs: the self join of ratings and its select *)

\* The condition that pairs a rating with every other movie of the user,
\* whatever the order of the two IDs.
AnyOtherMovie(r1, r2) ==
    /\ r2.userID = r1.userID
    /\ r2.movieID # r1.movieID

\* (ratings2.userID == ratings1.userID) & (ratings2.movieID > ratings1.movieID)
joinCondition(r1, r2) ==
    /\ r2.userID = r1.userID
    /\ r2.movieID > r1.movieID

\* The joined rows <<ratings1 row, ratings2 row>>.  Every copy of the left row
\* meets every copy of the right row.  Rows are matched user by user: rows of
\* different users never satisfy joinCondition.
SelfJoin(rt) ==
    LET U == {r.userID : r \in DOMAIN rt}
        Of(u) == {r \in DOMAIN rt : r.userID = u}
        J == UNION {{j \in Of(u) \X Of(u) : joinCondition(j[1], j[2])} : u \in U}
    IN [j \in J |-> rt[j[1]] * rt[j[2]]]

\* .select(movie1, movie2, rating1, rating2) of one joined row.
PairRow(j) ==
    [movie1 |-> j[1].movieID, movie2 |-> j[2].movieID,
     rating1 |-> j[1].rating, rating2 |-> j[2].rating]

\* select(...).distinct(): every selected row once.
SelectDistinctPairs(jn, U) ==
    LET P == {PairRow(j) : j \in DOMAIN jn} IN [p \in P |-> 1]

\* The select drops userID: joined rows that differ only in the user become
\* copies of one row.
SelectPairs(jn, U) ==
    LET P == {PairRow(j) : j \in DOMAIN jn}
        From(p) == {j \in {<<RatingRow(u, p.movie1, p.rating1),
                             RatingRow(u, p.movie2, p.rating2)>> : u \in U} :
                        j \in DOMAIN jn}
    IN [p \in P |-> SumOver(From(p), [j \in From(p) |-> jn[j]])]

MoviePairsOf(rt) == SelectPairs(SelfJoin(rt), {r.userID : r \in DOMAIN rt})

-----------------------------------------------------------------------------
(* computeCosineSimilarity *)

\* withColumn("xx", rating1 * rating1)
xx(p) == p.rating1 * p.rating1

\* rating2 * rating1, the product of the two columns.
yySwapped(p) == p.rating2 * p.rating1

\* withColumn("yy", rating2 * rating2)
yy(p) == p.rating2 * p.rating2

\* rating1 + rating2, the sum of the two columns.
xySum(p) == p.rating1 + p.rating2

\* withColumn("xy", rating1 * rating2)
xy(p) == p.rating1 * p.rating2

\* groupBy("movie1", "movie2"): the keys of a partition.
GroupKeys(part) == {<<p.movie1, p.movie2>> : p \in DOMAIN part}

\* The aggregation buffer of one group of one partition: sum(xy), sum(xx),
\* sum(yy), count(xy).
aggBuffer(part, k) ==
    LET G == {p \in DOMAIN part : p.movie1 = k[1] /\ p.movie2 = k[2]}
    IN [xy |-> SumOver(G, [p \in G |-> part[p] * xy(p)]),
        xx |-> SumOver(G, [p \in G |-> part[p] * xx(p)]),
        yy |-> SumOver(G, [p \in G |-> part[p] * yy(p)]),
        n  |-> SumOver(G, [p \in G |-> part[p]])]

\* Partial aggregation of one partition.
partialAgg(part) == [k \in GroupKeys(part) |-> aggBuffer(part, k)]

\* A merge that keeps the larger of the two counts.
MaxCountBuffers(a, b) ==
    [xy |-> a.xy + b.xy, xx |-> a.xx + b.xx, yy |-> a.yy + b.yy,
     n  |-> IF a.n > b.n THEN a.n ELSE b.n]

\* Merging two buffers of the same group: sums and counts add.
mergeBuffers(a, b) ==
    [xy |-> a.xy + b.xy, xx |-> a.xx + b.xx, yy |-> a.yy + b.yy,
     n  |-> a.n + b.n]

\* Merging the partial aggregations of two partitions.
mergeAgg(t1, t2) ==
    [k \in DOMAIN t1 \cup DOMAIN t2 |->
        IF k \in DOMAIN t1 /\ k \in DOMAIN t2 THEN mergeBuffers(t1[k], t2[k])
        ELSE IF k \in DOMAIN t1 THEN t1[k] ELSE t2[k]]

RECURSIVE mergeAll(_)
\* The partial aggregations of the partitions, merged in their order.
mergeAll(parts) ==
    IF parts = <<>> THEN <<>>
    ELSE IF Len(parts) = 1 THEN partialAgg(parts[1])
    ELSE mergeAgg(mergeAll(SubSeq(parts, 1, Len(parts) - 1)),
                  partialAgg(parts[Len(parts)]))

\* calculateSimilarity: numerator, denominator, numPairs of every group.  The
\* denominator sqrt(sum(xx)) * sqrt(sum(yy)) is kept as the two sums.
calculateSimilarity(parts) ==
    LET t == mergeAll(parts)
    IN {[movie1 |-> k[1], movie2 |-> k[2],
         numerator |-> t[k].xy,
         denominator |-> [xx |-> t[k].xx, yy |-> t[k].yy],
         numPairs |-> t[k].n] : k \in DOMAIN t}

\* sqrt(a) * sqrt(b) != 0
NonZero(denominator) == denominator.xx # 0 /\ denominator.yy # 0

\* when(denominator != 0, numerator / denominator).otherwise(0), as a quotient
scoreOf(c) ==
    IF NonZero(c.denominator)
    THEN [num |-> c.numerator, den |-> c.denominator]
    ELSE [num |-> 0, den |-> [xx |-> 1, yy |-> 1]]

\* result_: withColumn("score").select(movie1, movie2, score, numPairs)
result_(cs) ==
    {[movie1 |-> c.movie1, movie2 |-> c.movie2, score |-> scoreOf(c),
      numPairs |-> c.numPairs] : c \in cs}

\* data reaches the aggregation as the partitions parts.
computeCosineSimilarity(parts) == result_(calculateSimilarity(parts))

-----------------------------------------------------------------------------
(* int(movieID): the text typed at the prompt, as a sequence of characters *)

DigitChars == <<"0", "1", "2", "3", "4", "5", "6", "7", "8", "9">>

IsDigit(c) == \E i \in 1..10 : DigitChars[i] = c

DigitValue(c) == (CHOOSE i \in 1..10 : DigitChars[i] = c) - 1

RECURSIVE Strip(_)
\* str.strip() of the blanks around the text, which int() ignores.
Strip(s) ==
    IF s # <<>> /\ Head(s) = " " THEN Strip(Tail(s))
    ELSE IF s # <<>> /\ s[Len(s)] = " " THEN Strip(SubSeq(s, 1, Len(s) - 1))
    ELSE s

\* The text without its optional sign.
Unsigned(s) ==
    IF s # <<>> /\ Head(s) \in {"-", "+"} THEN Tail(s) ELSE s

RECURSIVE DecimalValue(_)
DecimalValue(d) ==
    IF d = <<>> THEN 0
    ELSE 10 * DecimalValue(SubSeq(d, 1, Len(d) - 1)) + DigitValue(d[Len(d)])

\* int(s) does not raise ValueError.
IsInt(s) ==
    LET d == Unsigned(Strip(s))
    IN d # <<>> /\ \A i \in 1..Len(d) : IsDigit(d[i])

\* The value int(s) returns.
IntOf(s) ==
    LET t == Strip(s)
        v == DecimalValue(Unsigned(t))
    IN IF Head(t) = "-" THEN 0 - v ELSE v

\* What is typed at the prompt.
Inputs ==
    {<<"1">>, <<"2">>, <<"1", "2">>, <<" ", "2">>, <<"-", "1">>,
     <<>>, <<"x">>, <<"1", "x">>}

-----------------------------------------------------------------------------
(* The query: filter, sort, take *)

RECURSIVE FracLess(_, _, _, _)
\* a/b < c/d for a, c >= 0 and b, d > 0, by the continued fractions of the
\* two (no product is formed, so no intermediate value outgrows the operands).
FracLess(a, b, c, d) ==
    IF a \div b # c \div d THEN a \div b < c \div d
    ELSE IF c % d = 0 THEN FALSE
    ELSE IF a % b = 0 THEN TRUE
    ELSE FracLess(d, c % d, b, a % b)

\* The square of a score with numerator >= 0, as a fraction.
SquareOf(a) == [p |-> a.num * a.num, q |-> a.den.xx * a.den.yy]

\* a > t for a score a (numerator >= 0) and a positive quotient t.
ScoreAbove(a, t) ==
    FracLess(t.num * t.num, t.den * t.den, SquareOf(a).p, SquareOf(a).q)

\* a < b for two scores with numerators >= 0.
ScoreLess(a, b) ==
    FracLess(SquareOf(a).p, SquareOf(a).q, SquareOf(b).p, SquareOf(b).q)

\* (movie1 == movieID) | (movie2 == movieID)
Mentions(r, id) == r.movie1 = id \/ r.movie2 = id

\* numPairs >= coOccurrenceThreshold, the comparison that is not strict.
AtLeastSupport(r) == r.numPairs >= coOccurrenceThreshold

\* numPairs > coOccurrenceThreshold
EnoughSupport(r) == r.numPairs > coOccurrenceThreshold

\* score > scoreThreshold
HighScore(r) == ScoreAbove(r.score, scoreThreshold)

\* The filter of filteredResults.
FilterSimilar(sims, id) ==
    {r \in sims : Mentions(r, id) /\ HighScore(r) /\ EnoughSupport(r)}

RECURSIVE SortedPrefixes(_, _)
\* sort(score desc).take(n): the first n rows of the rows S in descending
\* score order.  Rows of equal score come in any order.
SortedPrefixes(S, n) ==
    IF n = 0 \/ S = {} THEN {<<>>}
    ELSE LET top == {r \in S : \A q \in S : ~ScoreLess(r.score, q.score)}
         IN UNION {{<<r>> \o t : t \in SortedPrefixes(S \ {r}, n - 1)} : r \in top}

-----------------------------------------------------------------------------
(* Printing the results *)

\* movieNames.filter(movieID == movieId).select("movieTitle").collect()
TitlesOf(names, id) == {n.movieTitle : n \in {x \in names : x.movieID = id}}

\* getMovieName: collect()[0][0]; an empty collect() raises IndexError.
getMovieName(names, id) ==
    IF TitlesOf(names, id) = {} THEN [raised |-> "IndexError"]
    ELSE [raised |-> "", title |-> CHOOSE t \in TitlesOf(names, id) : TRUE]

\* result.movie1 if result.movie1 != movieID else result.movie2
similarMovieID(result, id) ==
    IF result.movie1 # id THEN result.movie1 ELSE result.movie2

\* {score:.2f}: the score in hundredths, rounded.
Hundredths(a) ==
    CHOOSE h \in 0..100 :
        /\ h = 0 \/ ~FracLess(SquareOf(a).p, SquareOf(a).q,
                              (2 * h - 1) * (2 * h - 1), 40000)
        /\ FracLess(SquareOf(a).p, SquareOf(a).q, (2 * h + 1) * (2 * h + 1), 40000)

ResultLine(names, result, id) ==
    [name |-> getMovieName(names, similarMovieID(result, id)).title,
     score |-> Hundredths(result.score),
     strength |-> result.numPairs]

\* The number of results printed before getMovieName raises (all of them when
\* it never does).
PrintedBeforeRaise(names, res, id) ==
    LET bad == {i \in 1..Len(res) :
                   getMovieName(names, similarMovieID(res[i], id)).raised # ""}
    IN IF bad = {} THEN Len(res)
       ELSE (CHOOSE i \in bad : \A j \in bad : i <= j) - 1

-----------------------------------------------------------------------------
(* The tables the run is given *)

SmallRows == {RatingRow(u, m, r) : u \in SmallUsers, m \in SmallMovies, r \in Ratings}

RECURSIVE BagsUpTo(_)
\* Every table of at most n rows of SmallRows.
BagsUpTo(n) ==
    IF n = 0 THEN {EmptyBag}
    ELSE LET B == BagsUpTo(n - 1)
         IN B \cup {b (+) SetToBag({r}) : b \in B, r \in SmallRows}

\* n times the rating v.
Rep(n, v) == [i \in 1..n |-> v]

\* How a crowd rates one item: the users 1..raters rate it, user u with
\* pattern[u], the pattern repeated as often as needed.
Profile(d, pattern) == [raters |-> coOccurrenceThreshold + d, pattern |-> pattern]

FullCrowd == CrowdSlack

\* Two items whose score is exactly 97/100 over coOccurrenceThreshold + 1 users:
\* sum(xy) = 776, sum(xx) = sum(yy) = 800.
BoundaryA == Rep(6, 5) \o Rep(6, 3) \o Rep(35, 4) \o Rep(4, 3)
BoundaryB == Rep(6, 3) \o Rep(6, 5) \o Rep(35, 4) \o Rep(4, 3)

Profiles ==
    << Profile(FullCrowd, <<5>>),
       Profile(FullCrowd, <<5, 4>>),
       Profile(1, <<4, 5>>),
       Profile(0, <<5>>),
       Profile(FullCrowd, <<5, 5, 4>>),
       Profile(FullCrowd, <<4>>),
       Profile(1, <<5, 4, 4>>),
       Profile(FullCrowd, <<2>>),
       Profile(FullCrowd, <<4, 5, 5>>),
       Profile(1, BoundaryA),
       Profile(1, BoundaryB),
       Profile(FullCrowd, <<3>>),
       Profile(FullCrowd, <<5, 1>>),
       Profile(FullCrowd, <<4, 4, 5>>),
       Profile(1, <<5, 4, 5>>),
       Profile(FullCrowd, <<5, 3>>),
       [raters |-> 1, pattern |-> <<5>>],
       Profile(FullCrowd, <<4, 5, 4>>),
       Profile(1, <<5, 4>>) >>

CrowdMovies == 1..NumCrowdMovies

ProfileOf(m, shift) == Profiles[((m - 1 + shift) % Len(Profiles)) + 1]

RatingBy(profile, u) == profile.pattern[((u - 1) % Len(profile.pattern)) + 1]

\* The crowd table in which item m is rated after ProfileOf(m, shift); every
\* (user, item) occurs at most once.
CrowdTable(shift) ==
    LET cells == {c \in (1..(coOccurrenceThreshold + CrowdSlack)) \X CrowdMovies :
                     c[1] <= ProfileOf(c[2], shift).raters}
    IN SetToBag({RatingRow(c[1], c[2], RatingBy(ProfileOf(c[2], shift), c[1])) :
                    c \in cells})

\* The catalogs: complete, or without the items 2 and 3.
Catalog(missing) == {NameRow(m) : m \in (CrowdMovies \cup SmallMovies) \ missing}

-----------------------------------------------------------------------------
(* How the rows of moviePairs may be spread over partitions *)

\* Tables of at most MaxSplitRows rows are spread in every way.
MaxSplitRows == 4

\* Half of the copies of every row of bag B.
Half(B) ==
    LET D == {p \in DOMAIN B : B[p] >= 2} IN [p \in D |-> B[p] \div 2]

\* The ways data is spread over (at most three) partitions, in their order.
Partitionings(data) ==
    IF BagCardinality(data) <= MaxSplitRows
    THEN UNION {{<<P1, P2, (data (-) P1) (-) P2>> : P2 \in SubBag(data (-) P1)} :
                   P1 \in SubBag(data)}
    ELSE LET up(B) == BagRestrict(B, {p \in DOMAIN B : p.rating1 >= p.rating2})
             half  == Half(data)
             rest  == data (-) half
         IN {<<data>>,
             <<up(data), data (-) up(data)>>,
             <<data (-) up(data), up(data)>>,
             <<half, up(rest), rest (-) up(rest)>>}

-----------------------------------------------------------------------------
(* The run *)

Unset == [kind |-> "unset"]

Init ==
    /\ \/ /\ movies \in BagsUpTo(MaxRows)
          /\ movieNames = Catalog({})
       \/ \E shift \in 0..(Len(Profiles) - 1), missing \in {{}, {2, 3}} :
             /\ movies = CrowdTable(shift)
             /\ movieNames = Catalog(missing)
    /\ goodMovies = {}
    /\ ratings = EmptyBag
    /\ moviePairs = EmptyBag
    /\ moviePairSimilarities = {}
    /\ movieID = Unset
    /\ filteredResults = {}
    /\ results = <<>>
    /\ output = <<>>
    /\ lookups = <<>>
    /\ outcome = "running"
    /\ pc = "filterGoodMovies"

\* goodMovies = filterGoodMovies(movies)
FilterGood ==
    /\ pc = "filterGoodMovies"
    /\ goodMovies' = filterGoodMovies(movies, defaultThreshold)
    /\ pc' = "ratings"
    /\ UNCHANGED <<movieNames, movies, ratings, moviePairs, moviePairSimilarities,
                   movieID, filteredResults, results, output, lookups, outcome>>

\* ratings = movies.join(goodMovies, "movieID").select(...)
JoinRatings ==
    /\ pc = "ratings"
    /\ ratings' = JoinGoodMovies(movies, goodMovies)
    /\ pc' = "moviePairs"
    /\ UNCHANGED <<movieNames, movies, goodMovies, moviePairs, moviePairSimilarities,
                   movieID, filteredResults, results, output, lookups, outcome>>

\* moviePairs = ratings.alias("ratings1").join(ratings.alias("ratings2"), ...)
PairUp ==
    /\ pc = "moviePairs"
    /\ moviePairs' = MoviePairsOf(ratings)
    /\ pc' = "moviePairSimilarities"
    /\ UNCHANGED <<movieNames, movies, goodMovies, ratings, moviePairSimilarities,
                   movieID, filteredResults, results, output, lookups, outcome>>

\* moviePairSimilarities = computeCosineSimilarity(spark, moviePairs).cache()
Similarity ==
    /\ pc = "moviePairSimilarities"
    /\ \E parts \in Partitionings(moviePairs) :
          moviePairSimilarities' = computeCosineSimilarity(parts)
    /\ pc' = "input"
    /\ UNCHANGED <<movieNames, movies, goodMovies, ratings, moviePairs,
                   movieID, filteredResults, results, output, lookups, outcome>>

\* movieID = input("Enter the movie ID ...")
ReadInput ==
    /\ pc = "input"
    /\ \E s \in Inputs : movieID' = [kind |-> "str", text |-> s]
    /\ pc' = "int"
    /\ UNCHANGED <<movieNames, movies, goodMovies, ratings, moviePairs,
                   moviePairSimilarities, filteredResults, results, output,
                   lookups, outcome>>

\* try: movieID = int(movieID)
ParseInput ==
    /\ pc = "int"
    /\ \/ /\ IsInt(movieID.text)
          /\ movieID' = [kind |-> "int", value |-> IntOf(movieID.text)]
          /\ pc' = "filteredResults"
       \/ /\ ~IsInt(movieID.text)
          /\ movieID' = movieID
          /\ pc' = "except"
    /\ UNCHANGED <<movieNames, movies, goodMovies, ratings, moviePairs,
                   moviePairSimilarities, filteredResults, results, output,
                   lookups, outcome>>

\* The statement sys.exit(1): sys is looked up among the names the script
\* bound; an unbound name raises NameError, which nothing catches.
SysExit ==
    IF "sys" \in importedNames THEN "SystemExit(1)" ELSE "NameError"

\* except ValueError: print("Invalid input. ..."); sys.exit(1)
HandleValueError ==
    /\ pc = "except"
    /\ output' = <<"Invalid input. Please enter a numeric movie ID.">>
    /\ outcome' = SysExit
    /\ pc' = "done"
    /\ UNCHANGED <<movieNames, movies, goodMovies, ratings, moviePairs,
                   moviePairSimilarities, movieID, filteredResults, results,
                   lookups>>

\* filteredResults = moviePairSimilarities.filter(...)
\* results = filteredResults.sort(func.col("score").desc()).take(10)
FindSimilar ==
    /\ pc = "filteredResults"
    /\ filteredResults' = FilterSimilar(moviePairSimilarities, movieID.value)
    /\ \E res \in SortedPrefixes(filteredResults', takeCount) : results' = res
    /\ pc' = "print"
    /\ UNCHANGED <<movieNames, movies, goodMovies, ratings, moviePairs,
                   moviePairSimilarities, movieID, output, lookups, outcome>>

\* if results: the header and one line per result, until getMovieName raises;
\* else: the "no similar movies" line.
Report ==
    /\ pc = "print"
    /\ LET id == movieID.value
           n  == PrintedBeforeRaise(movieNames, results, id)
           similar == [i \in 1..Len(results) |-> similarMovieID(results[i], id)]
       IN IF results = <<>>
          THEN /\ output' = <<"No similar movies found for the specified movie ID.">>
               /\ lookups' = <<>>
               /\ outcome' = "no results"
          ELSE IF getMovieName(movieNames, id).raised # ""
          THEN /\ output' = <<>>
               /\ lookups' = <<id>>
               /\ outcome' = getMovieName(movieNames, id).raised
          ELSE /\ output' = <<[top |-> getMovieName(movieNames, id).title]>> \o
                            [i \in 1..n |-> ResultLine(movieNames, results[i], id)]
               /\ lookups' = <<id>> \o
                    SubSeq(similar, 1, IF n < Len(results) THEN n + 1 ELSE n)
               /\ outcome' = IF n < Len(results) THEN "IndexError" ELSE "results"
    /\ pc' = "done"
    /\ UNCHANGED <<movieNames, movies, goodMovies, ratings, moviePairs,
                   moviePairSimilarities, movieID, filteredResults, results>>

Next ==
    \/ FilterGood
    \/ JoinRatings
    \/ PairUp
    \/ Similarity
    \/ ReadInput
    \/ ParseInput
    \/ HandleValueError
    \/ FindSimilar
    \/ Report

Spec == Init /\ [][Next]_vars

-----------------------------------------------------------------------------
(* Properties *)

\* The input parsed as an integer and the query has run.
Queried == pc \in {"print", "done"} /\ movieID.kind = "int"

RatingPairs == Ratings \X Ratings

\* The number of observations (a, b, r1, r2) among moviePairs.
Observed(a, b, r1, r2) ==
    CopiesIn([movie1 |-> a, movie2 |-> b, rating1 |-> r1, rating2 |-> r2], moviePairs)

\* The sum of weight[r1, r2] over the observations of the pair (a, b).
OverPair(a, b, weight) ==
    SumOver(RatingPairs,
            [rr \in RatingPairs |-> Observed(a, b, rr[1], rr[2]) * weight[rr]])

PairKeys == {<<p.movie1, p.movie2>> : p \in DOMAIN moviePairs}

\* C1: the aggregator emits exactly one row per distinct (movie1, movie2) of
\* its input; the row's numerator is the sum of rating1*rating2, its
\* denominator sqrt(sum rating1^2) * sqrt(sum rating2^2) and its numPairs the
\* number of observations, all over the observations of that pair only.
C1_OneRowPerPairWithItsSums ==
    pc = "input" =>
        /\ {<<s.movie1, s.movie2>> : s \in moviePairSimilarities} = PairKeys
        /\ \A s, t \in moviePairSimilarities :
              s.movie1 = t.movie1 /\ s.movie2 = t.movie2 => s = t
        /\ \A s \in moviePairSimilarities :
              /\ s.score.num =
                    OverPair(s.movie1, s.movie2, [rr \in RatingPairs |-> rr[1] * rr[2]])
              /\ s.score.den.xx =
                    OverPair(s.movie1, s.movie2, [rr \in RatingPairs |-> rr[1] * rr[1]])
              /\ s.score.den.yy =
                    OverPair(s.movie1, s.movie2, [rr \in RatingPairs |-> rr[2] * rr[2]])
              /\ s.numPairs =
                    OverPair(s.movie1, s.movie2, [rr \in RatingPairs |-> 1])

\* Two pairs were aggregated, one of them from observations with different ratings.
C1_Witness ==
    /\ pc = "input"
    /\ Cardinality(moviePairSimilarities) >= 2
    /\ \E p, q \in DOMAIN moviePairs :
          p # q /\ p.movie1 = q.movie1 /\ p.movie2 = q.movie2

\* C2: every observation and every emitted row has movie1 < movie2, and the
\* output never holds both (a, b) and (b, a).
C2_CanonicalOrder ==
    /\ \A p \in DOMAIN moviePairs : p.movie1 < p.movie2
    /\ \A s \in moviePairSimilarities :
          /\ s.movie1 < s.movie2
          /\ \A t \in moviePairSimilarities :
                ~(t.movie1 = s.movie2 /\ t.movie2 = s.movie1)

\* A user rated both items of an emitted pair.
C2_Witness ==
    /\ pc = "input"
    /\ \E s \in moviePairSimilarities, u \in SmallUsers :
          \E r1, r2 \in Ratings :
             /\ RatingRow(u, s.movie1, r1) \in DOMAIN ratings
             /\ RatingRow(u, s.movie2, r2) \in DOMAIN ratings

RatedMovies == {r.movieID : r \in DOMAIN ratings}

\* The rating rows of item m among ratings.
RowsFor(m) == {r \in DOMAIN ratings : r.movieID = m}

\* The number of rating rows of user u among ratings.
RowsBy(u) ==
    BagCardinality(BagRestrict(ratings, {r \in DOMAIN ratings : r.userID = u}))

\* The number of users with a row in A and a row in B.
CoRaters(A, B) == Cardinality({r.userID : r \in A} \cap {r.userID : r \in B})

\* The number of pairs of rating rows of one user, one in A and one in B.
RowPairs(A, B) ==
    LET same == {j \in A \X B : j[1].userID = j[2].userID}
    IN SumOver(same, [j \in same |-> ratings[j[1]] * ratings[j[2]]])

\* The number of observations of the pair (a, b) among moviePairs.
NumObserved(a, b) ==
    BagCardinality(BagRestrict(moviePairs,
        {p \in DOMAIN moviePairs : p.movie1 = a /\ p.movie2 = b}))

\* No (userID, movieID) occurs in more than one rating row.
RatedOnce ==
    \A r \in DOMAIN ratings :
       /\ ratings[r] = 1
       /\ \A q \in RowsFor(r.movieID) : q.userID = r.userID => q = r

\* C3 as stated: one observation per user and unordered pair of distinct
\* items the user rated, so that the number of observations of a pair, and the
\* support, is the number of users who rated both; for any ratings table.
C3_OneObservationPerCoRater ==
    /\ pc = "moviePairSimilarities" =>
          \A a, b \in RatedMovies :
             a < b => NumObserved(a, b) = CoRaters(RowsFor(a), RowsFor(b))
    /\ pc = "input" =>
          \A s \in moviePairSimilarities :
             s.numPairs = CoRaters(RowsFor(s.movie1), RowsFor(s.movie2))

\* C3, amended: a user contributes one observation per pair of their rating
\* rows, one for the lower and one for the higher item, none of (b, a) or
\* (a, a), and none at all with fewer than 2 rating rows.  The support is the
\* number of these row pairs over all users; it is the number of users who
\* rated both when no (userID, movieID) occurs in more than one row.
C3_OneObservationPerRowPair ==
    /\ pc = "moviePairSimilarities" =>
          /\ \A a, b \in RatedMovies :
                NumObserved(a, b) =
                    IF a < b THEN RowPairs(RowsFor(a), RowsFor(b)) ELSE 0
          /\ \A u \in {j[1].userID : j \in DOMAIN SelfJoin(ratings)} : RowsBy(u) >= 2
          /\ RatedOnce =>
                \A a, b \in RatedMovies :
                   a < b => NumObserved(a, b) = CoRaters(RowsFor(a), RowsFor(b))
    /\ pc = "input" =>
          /\ \A s \in moviePairSimilarities :
                s.numPairs = RowPairs(RowsFor(s.movie1), RowsFor(s.movie2))
          /\ RatedOnce =>
                \A s \in moviePairSimilarities :
                   s.numPairs = CoRaters(RowsFor(s.movie1), RowsFor(s.movie2))

\* Two users rated both items of a pair, a third user rated one item only,
\* and each (user, item) occurs once.
C3_Witness ==
    /\ pc = "input"
    /\ RatedOnce
    /\ \E s \in moviePairSimilarities :
          /\ s.numPairs >= 2
          /\ \E r \in DOMAIN ratings :
                /\ r.movieID = s.movie1
                /\ \A q \in DOMAIN ratings :
                      q.userID = r.userID => q.movieID # s.movie2

\* The items rated in movies.
LoadedMovies == {r.movieID : r \in DOMAIN movies}

\* The sum and the number of the ratings of each item in movies.
Stars ==
    [m \in LoadedMovies |->
        SumOver(Ratings, [r \in Ratings |->
            r * BagCardinality(BagRestrict(movies,
                    {x \in DOMAIN movies : x.movieID = m /\ x.rating = r}))])]
Votes ==
    [m \in LoadedMovies |->
        BagCardinality(BagRestrict(movies, {x \in DOMAIN movies : x.movieID = m}))]

\* The thresholds 0.0, 0.5, ... 6.0
Thresholds == {[num |-> n, den |-> 2] : n \in 0..12}

RatedAlike(a, b) ==
    \A rr \in RatingPairs : Observed(a, b, rr[1], rr[2]) > 0 => rr[1] = rr[2]

\* C8: a pair rated identically by every co-rating user has score 1.0, its
\* numerator equals its denominator; every emitted score lies in [0, 1]:
\* 0 <= numerator and numerator^2 <= sum(xx) * sum(yy).
C8_ScoreWithinUnitInterval ==
    pc = "input" =>
        \A s \in moviePairSimilarities :
           /\ 0 <= s.score.num
           /\ s.score.num * s.score.num <= s.score.den.xx * s.score.den.yy
           /\ RatedAlike(s.movie1, s.movie2) =>
                 /\ s.score.num * s.score.num = s.score.den.xx * s.score.den.yy
                 /\ s.score.num = s.score.den.xx
                 /\ s.score.num = s.score.den.yy

\* A pair rated alike by its co-raters, with two different ratings, and a pair
\* with a score below 1.
C8_Witness ==
    /\ pc = "input"
    /\ \E s \in moviePairSimilarities :
          /\ RatedAlike(s.movie1, s.movie2)
          /\ Observed(s.movie1, s.movie2, 5, 5) > 0
          /\ Observed(s.movie1, s.movie2, 4, 4) > 0
    /\ \E s \in moviePairSimilarities :
          s.score.num * s.score.num < s.score.den.xx * s.score.den.yy

RECURSIVE OnePass(_, _, _)
\* One sequential pass over the observations rows of the group k of data,
\* copy by copy, from the buffer acc.
OnePass(data, rows, acc) ==
    IF rows = {} THEN acc
    ELSE LET p == CHOOSE q \in rows : TRUE
         IN OnePass(data, rows \ {p},
                    [xy |-> acc.xy + data[p] * p.rating1 * p.rating2,
                     xx |-> acc.xx + data[p] * p.rating1 * p.rating1,
                     yy |-> acc.yy + data[p] * p.rating2 * p.rating2,
                     n  |-> acc.n + data[p]])

Sequential(data, k) ==
    OnePass(data, {p \in DOMAIN data : p.movie1 = k[1] /\ p.movie2 = k[2]},
            [xy |-> 0, xx |-> 0, yy |-> 0, n |-> 0])

\* C9: however the observations are spread over partitions and in whatever
\* order the partitions are merged, every pair gets the numerator, the sums of
\* squares and the support of one sequential pass over all observations.
C9_PartitionIndependent ==
    pc = "input" =>
        moviePairSimilarities =
            {[movie1 |-> k[1], movie2 |-> k[2],
              score |-> [num |-> Sequential(moviePairs, k).xy,
                         den |-> [xx |-> Sequential(moviePairs, k).xx,
                                  yy |-> Sequential(moviePairs, k).yy]],
              numPairs |-> Sequential(moviePairs, k).n] : k \in PairKeys}

\* A pair with several observations was aggregated from a table that is
\* spread over partitions in every way.
C9_Witness ==
    /\ pc = "input"
    /\ BagCardinality(moviePairs) <= MaxSplitRows
    /\ \E s \in moviePairSimilarities : s.numPairs >= 2

\* The rows of moviePairSimilarities the query is to return for item id: the
\* item is movie1 or movie2, the score is above 97/100 (numerator^2 * 100^2 >
\* 97^2 * sum(xx) * sum(yy)) and there are at least 51 observations.
Qualifying(id) ==
    {s \in moviePairSimilarities :
        /\ s.movie1 = id \/ s.movie2 = id
        /\ s.score.num > 0
        /\ FracLess(9409, 10000, s.score.num * s.score.num,
                    s.score.den.xx * s.score.den.yy)
        /\ s.numPairs >= 51}

\* C4: the query returns at most 10 rows in non-increasing score order; every
\* returned row has the target as movie1 or movie2, a score strictly above
\* 0.97 and a support strictly above 50; no row with these three properties
\* that is left out has a score strictly greater than a returned row; the
\* "other" item of a returned row is never the target.
C4_TopTenAboveThresholds ==
    Queried =>
        LET id == movieID.value
            returned == {results[i] : i \in 1..Len(results)}
        IN /\ Len(results) <= 10
           /\ \A i, j \in 1..Len(results) :
                 i < j => ~ScoreLess(results[i].score, results[j].score)
           /\ returned \subseteq Qualifying(id)
           /\ \A q \in Qualifying(id) \ returned :
                 \A r \in returned : ~ScoreLess(r.score, q.score)
           /\ \A r \in returned : similarMovieID(r, id) # id

\* Ten rows were returned and a qualifying row was left out; among the rows
\* that mention the target, one has support exactly 50 and a score above 0.97,
\* one has the score 97/100 exactly and support above 50; the target is
\* movie1 of one returned row and movie2 of another.
C4_Witness ==
    /\ Queried
    /\ Len(results) = 10
    /\ Qualifying(movieID.value) \ {results[i] : i \in 1..Len(results)} # {}
    /\ \E s \in moviePairSimilarities :
          /\ Mentions(s, movieID.value)
          /\ s.numPairs = 50
          /\ ScoreAbove(s.score, scoreThreshold)
    /\ \E s \in moviePairSimilarities :
          /\ Mentions(s, movieID.value)
          /\ s.numPairs > 50
          /\ ~FracLess(9409, 10000, s.score.num * s.score.num,
                       s.score.den.xx * s.score.den.yy)
          /\ ~FracLess(s.score.num * s.score.num,
                       s.score.den.xx * s.score.den.yy, 9409, 10000)
    /\ \E i, j \in 1..Len(results) :
          results[i].movie1 = movieID.value /\ results[j].movie2 = movieID.value

\* The item m has ratings in movies and their mean is below 3.0.
Unqualified(m) == m \in LoadedMovies /\ Stars[m] < 3 * Votes[m]

\* C5: no similarity row mentions an item the quality filter excluded; a
\* query for such an item, or for an item without observations, finds
\* nothing, ends in the "no results" outcome and never calls getMovieName.
C5_ExcludedItemHasNoResults ==
    /\ pc = "input" =>
          \A m \in LoadedMovies :
             Unqualified(m) => \A s \in moviePairSimilarities : ~Mentions(s, m)
    /\ (/\ pc = "done"
        /\ movieID.kind = "int"
        /\ \/ Unqualified(movieID.value)
           \/ \A p \in DOMAIN moviePairs :
                 p.movie1 # movieID.value /\ p.movie2 # movieID.value)
       => /\ filteredResults = {}
          /\ results = <<>>
          /\ lookups = <<>>
          /\ outcome = "no results"
          /\ output = <<"No similar movies found for the specified movie ID.">>

\* The query for an excluded item of a crowd table ended; another item of the
\* table has rows that pass the filter of the query.
C5_Witness ==
    /\ pc = "done"
    /\ movieID.kind = "int"
    /\ Unqualified(movieID.value)
    /\ outcome = "no results"
    /\ \E s \in moviePairSimilarities :
          s.numPairs > coOccurrenceThreshold /\ ScoreAbove(s.score, scoreThreshold)

\* C6: when the text typed is not an integer, the run ends with the invalid
\* input message and a controlled exit with status 1, and the filter, sort
\* and take over the similarity table are never run.
C6_InvalidInputExits ==
    (pc = "done" /\ movieID.kind = "str") =>
        /\ output = <<"Invalid input. Please enter a numeric movie ID.">>
        /\ outcome = "SystemExit(1)"
        /\ filteredResults = {}
        /\ results = <<>>

\* C10: for every integer typed the run ends with the list of results and
\* their titles, or with the "no results" line; getMovieName succeeds for the
\* target and for every returned item, whatever the catalog holds.
C10_ResultsOrNoResults ==
    (pc = "done" /\ movieID.kind = "int") =>
        /\ outcome \in {"results", "no results"}
        /\ results # <<>> =>
              /\ Len(output) = Len(results) + 1
              /\ Len(lookups) = Len(results) + 1

=============================================================================
